---- MODULE Spec2Model ----
(***************************************************************************)
(* Model of the Prometheus-based MetricsClient of prometheus-hpa           *)
(* (package metrics): GetCPUUtilization and GetCustomMetric.               *)
(*                                                                         *)
(* One invocation is a pipeline of steps; the position in the pipeline is  *)
(* pc.  The pod listing and the backend query are external calls whose     *)
(* outcome is chosen nondeterministically from bounded sets.  A Go panic   *)
(* (failed type assertion, integer division by zero) ends the invocation   *)
(* in pc = "panic".                                                        *)
(*                                                                         *)
(* Numbers: CPU requests are in milli-units as in Quantity.MilliValue().   *)
(* A sample value v (a float64) is held as valueMilli = v * 1000, so that  *)
(* float64(v) * 1000 is valueMilli and v / n is the rational               *)
(* valueMilli / (1000 * n).  Returned values are rationals [num, den];     *)
(* den = 0 stands for the IEEE results of a float division by zero.        *)
(***************************************************************************)
EXTENDS Integers, Sequences, FiniteSets

\* ------------------------------------------------------------------ bounds
MaxPods == 2
MaxContainers == 2
MaxSamples == 2

\* ------------------------------------------------------- input enumeration
PodNameOf == <<"a", "b", "c", "d">>

Phases == {"Pending", "Running", "Succeeded"}

\* A container's Resources.Requests[cpu]: absent, or present with a milli value.
ContainerChoices ==
    << [hasCpu |-> FALSE, milli |-> 0],
       [hasCpu |-> TRUE,  milli |-> 0],
       [hasCpu |-> TRUE,  milli |-> 1] >>

\* Container lists of a Running pod.  The loop over containers only adds and
\* ORs, so the lists are enumerated up to order (non-decreasing choice index).
ContainerSeqs ==
    UNION { { [i \in 1..n |-> ContainerChoices[f[i]]] :
                f \in { g \in [1..n -> 1..Len(ContainerChoices)] :
                          \A i \in 1..n : \A j \in 1..n : i <= j => g[i] <= g[j] } } :
            n \in 0..MaxContainers }

\* Pods that are not Running carry one container, with or without a request.
PodShapes ==
    { [phase |-> "Running", containers |-> cs] : cs \in ContainerSeqs }
    \cup { [phase |-> ph, containers |-> <<ContainerChoices[k]>>] :
             ph \in Phases \ {"Running"}, k \in {1, 3} }

PodLists ==
    UNION { { [i \in 1..n |-> [name |-> PodNameOf[i],
                                phase |-> f[i].phase,
                                containers |-> f[i].containers]] :
                f \in [1..n -> PodShapes] } :
            n \in 0..MaxPods }

\* model.Sample: Value and Timestamp.
SampleSet == { [valueMilli |-> 3, ts |-> 1], [valueMilli |-> 5, ts |-> 2] }

SampleVectors == UNION { [1..n -> SampleSet] : n \in 0..MaxSamples }

NonVectorShapes == {"scalar", "matrix", "string"}

NoResponse == [err |-> FALSE, shape |-> "none", samples |-> <<>>]

\* Outcomes of queryAPI.Query: an error, or a model.Value of some shape.
Responses ==
    { [err |-> TRUE, shape |-> "none", samples |-> <<>>] }
    \cup { [err |-> FALSE, shape |-> s, samples |-> <<>>] : s \in NonVectorShapes }
    \cup { [err |-> FALSE, shape |-> "vector", samples |-> v] : v \in SampleVectors }

\* ------------------------------------------------------------ arithmetic
Abs(x) == IF x < 0 THEN -x ELSE x

\* Go's integer division and int64(float64) conversion truncate toward zero.
TruncDiv(a, b) ==
    LET q == Abs(a) \div Abs(b)
    IN  IF (a < 0) # (b < 0) THEN -q ELSE q

RECURSIVE GCD(_, _)
GCD(a, b) == IF b = 0 THEN a ELSE GCD(b, a % b)

\* float64 division n / d as an exact rational in lowest terms.
Rat(n, d) ==
    IF d = 0
    THEN [num |-> IF n > 0 THEN 1 ELSE IF n < 0 THEN -1 ELSE 0, den |-> 0]
    ELSE LET g == GCD(Abs(n), d)
         IN  [num |-> n \div g, den |-> d \div g]

ZeroValue == [num |-> 0, den |-> 1]
ZeroTime == 0

\* ---------------------------------------------------------------- state
VARIABLES
    pc,          \* position of the invocation
    entry,       \* "CPU" | "Custom" | "none"
    listErr,     \* the pod listing returned an error
    podList,     \* podList.Items
    podNames,    \* eligible pod names, in list order
    requestSum,
    missing,
    requestAvg,
    podListReg,  \* the pod-name pattern, as a sequence of tokens
    resp,        \* what queryAPI.Query returned
    consumption,
    ret,         \* what the entry point returned
    panicKind,
    calls        \* external calls made by this invocation, in order

vars == <<pc, entry, listErr, podList, podNames, requestSum, missing, requestAvg,
          podListReg, resp, consumption, ret, panicKind, calls>>

NoReturn == [err |-> "none", present |-> FALSE, value |-> ZeroValue, ts |-> ZeroTime]

\* return nil, time.Time{}, err
Failure(kind) == [err |-> kind, present |-> FALSE, value |-> ZeroValue, ts |-> ZeroTime]

\* return &value, timestamp, nil
Success(v, t) == [err |-> "none", present |-> TRUE, value |-> v, ts |-> t]

Init ==
    /\ pc = "idle"
    /\ entry = "none"
    /\ listErr = FALSE
    /\ podList = <<>>
    /\ podNames = <<>>
    /\ requestSum = 0
    /\ missing = FALSE
    /\ requestAvg = 0
    /\ podListReg = <<>>
    /\ resp = NoResponse
    /\ consumption = 0
    /\ ret = NoReturn
    /\ panicKind = "none"
    /\ calls = <<>>

\* ------------------------------------------------------ helpers of the code
\* pod.Status.Phase != v1.PodRunning -> continue
CpuEligible_NotPending(pod) == pod.phase # "Pending"
CpuEligible(pod) == pod.phase = "Running"

\* pod.Status.Phase == v1.PodPending -> continue
CustomEligible_RunningOnly(pod) == pod.phase = "Running"
CustomEligible(pod) == pod.phase # "Pending"

NamesOf(pods) == [i \in 1..Len(pods) |-> pods[i].name]

\* requestSum += containerRequest.MilliValue(), over the containers that have one
RECURSIVE ContainersRequestSum(_)
ContainersRequestSum(cs) ==
    IF cs = <<>> THEN 0
    ELSE (IF Head(cs).hasCpu THEN Head(cs).milli ELSE 0) + ContainersRequestSum(Tail(cs))

RECURSIVE PodsRequestSum(_)
PodsRequestSum(pods) ==
    IF pods = <<>> THEN 0
    ELSE (IF CpuEligible(Head(pods)) THEN ContainersRequestSum(Head(pods).containers) ELSE 0)
         + PodsRequestSum(Tail(pods))

\* missing = true, once set, stays set for the rest of the loop
MissingFlag_LastWins(pods) ==
    LET running == SelectSeq(pods, CpuEligible)
    IN  /\ running # <<>>
        /\ LET cs == running[Len(running)].containers
           IN  cs # <<>> /\ ~cs[Len(cs)].hasCpu
MissingFlag(pods) ==
    \E i \in 1..Len(pods) :
        /\ CpuEligible(pods[i])
        /\ \E j \in 1..Len(pods[i].containers) : ~pods[i].containers[j].hasCpu

\* len(podNames) == 0 && len(podList.Items) > 0
NoEligiblePods(names, pods) == Len(names) = 0 /\ Len(pods) > 0

\* missing || requestSum == 0
RequestCheckFails_SumOnly(m, sum) == sum = 0
RequestCheckFails(m, sum) == m \/ sum = 0

\* len(metrics) == 0
VectorEmpty_NilOnly(metrics) == FALSE
VectorEmpty(metrics) == Len(metrics) = 0

\* strings.TrimSuffix on a token sequence
TrimSuffix(s, suffix) ==
    IF s # <<>> /\ s[Len(s)] = suffix THEN SubSeq(s, 1, Len(s) - 1) ELSE s

RECURSIVE AppendNames(_, _)
AppendNames(reg, names) ==
    IF names = <<>> THEN reg
    ELSE AppendNames(reg \o <<Head(names), "|">>, Tail(names))

\* podListReg := "(" ; += podName + "|" for each name ; TrimSuffix (result
\* dropped) ; += ").*"
PatternOf(names) ==
    LET reg     == AppendNames(<<"(">>, names)
        trimmed == TrimSuffix(reg, "|")
    IN  reg \o <<")", ".*">>

\* Iteration orders of the map podNames (Go leaves the order unspecified).
Orderings(names) ==
    LET n == Len(names)
    IN  { [i \in 1..n |-> names[f[i]]] :
            f \in { g \in [1..n -> 1..n] : \A i \in 1..n : \A j \in 1..n : g[i] = g[j] => i = j } }

\* ---------------------------------------------------------------- actions
\* A caller invokes one of the two entry points.
Call(e) ==
    /\ pc = "idle"
    /\ pc' = "list"
    /\ entry' = e
    /\ UNCHANGED <<listErr, podList, podNames, requestSum, missing, requestAvg,
                   podListReg, resp, consumption, ret, panicKind, calls>>

\* h.client.Core().Pods(namespace).List(...) returns an error.
ListPodsFails ==
    /\ pc = "list"
    /\ calls' = Append(calls, "list")
    /\ listErr' = TRUE
    /\ ret' = Failure("PodListError")
    /\ pc' = "done"
    /\ UNCHANGED <<entry, podList, podNames, requestSum, missing, requestAvg,
                   podListReg, resp, consumption, panicKind>>

\* h.client.Core().Pods(namespace).List(...) returns the matching pods.
ListPodsReturns ==
    /\ pc = "list"
    /\ calls' = Append(calls, "list")
    /\ \E pods \in PodLists : podList' = pods
    /\ pc' = "filter"
    /\ UNCHANGED <<entry, listErr, podNames, requestSum, missing, requestAvg,
                   podListReg, resp, consumption, ret, panicKind>>

\* GetCpuConsumptionAndRequestInMillis: the loop over the pods and the checks
\* after it, up to the average request.
AggregateRequests ==
    /\ pc = "filter"
    /\ entry = "CPU"
    /\ LET names == NamesOf(SelectSeq(podList, CpuEligible))
           sum   == PodsRequestSum(podList)
           m     == MissingFlag(podList)
       IN  /\ podNames' = names
           /\ requestSum' = sum
           /\ missing' = m
           /\ IF NoEligiblePods(names, podList)
              THEN /\ ret' = Failure("NoEligiblePods")
                   /\ pc' = "done"
                   /\ UNCHANGED <<requestAvg, panicKind>>
              ELSE IF RequestCheckFails(m, sum)
              THEN /\ ret' = Failure("MissingResourceRequest")
                   /\ pc' = "done"
                   /\ UNCHANGED <<requestAvg, panicKind>>
              ELSE IF Len(names) = 0
              THEN /\ pc' = "panic"
                   /\ panicKind' = "DivideByZero"
                   /\ UNCHANGED <<requestAvg, ret>>
              ELSE /\ requestAvg' = TruncDiv(sum, Len(names))
                   /\ pc' = "build"
                   /\ UNCHANGED <<ret, panicKind>>
    /\ UNCHANGED <<entry, listErr, podList, podListReg, resp, consumption, calls>>

\* GetCustomMetric: the loop over the pods and the check after it.
FilterPending ==
    /\ pc = "filter"
    /\ entry = "Custom"
    /\ LET names == NamesOf(SelectSeq(podList, CustomEligible))
       IN  /\ podNames' = names
           /\ IF NoEligiblePods(names, podList)
              THEN /\ ret' = Failure("NoEligiblePods")
                   /\ pc' = "done"
              ELSE /\ pc' = "build"
                   /\ UNCHANGED ret
    /\ UNCHANGED <<entry, listErr, podList, requestSum, missing, requestAvg,
                   podListReg, resp, consumption, panicKind, calls>>

\* getCpuUtilizationForPods: the pattern, from the map in some iteration order.
BuildCpuQuery ==
    /\ pc = "build"
    /\ entry = "CPU"
    /\ \E order \in Orderings(podNames) : podListReg' = PatternOf(order)
    /\ pc' = "query"
    /\ UNCHANGED <<entry, listErr, podList, podNames, requestSum, missing, requestAvg,
                   resp, consumption, ret, panicKind, calls>>

\* getCustomMetricForPods: the pattern, from the slice in list order.
BuildCustomQuery ==
    /\ pc = "build"
    /\ entry = "Custom"
    /\ podListReg' = PatternOf(podNames)
    /\ pc' = "query"
    /\ UNCHANGED <<entry, listErr, podList, podNames, requestSum, missing, requestAvg,
                   resp, consumption, ret, panicKind, calls>>

\* h.queryAPI.Query(ctx, query, time.Now()) and the error check after it.
QueryBackend ==
    /\ pc = "query"
    /\ calls' = Append(calls, "query")
    /\ \E r \in Responses :
        /\ resp' = r
        /\ IF r.err
           THEN /\ ret' = Failure("QueryError")
                /\ pc' = "done"
           ELSE /\ pc' = "narrow"
                /\ UNCHANGED ret
    /\ UNCHANGED <<entry, listErr, podList, podNames, requestSum, missing, requestAvg,
                   podListReg, consumption, panicKind>>

\* metrics := result.(model.Vector) and the length check after it.
NarrowResult ==
    /\ pc = "narrow"
    /\ IF resp.shape # "vector"
       THEN /\ pc' = "panic"
            /\ panicKind' = "TypeAssertion"
            /\ UNCHANGED ret
       ELSE IF VectorEmpty(resp.samples)
       THEN /\ ret' = Failure("NoMatchingMetricSamples")
            /\ pc' = "done"
            /\ UNCHANGED panicKind
       ELSE /\ pc' = "compute"
            /\ UNCHANGED <<ret, panicKind>>
    /\ UNCHANGED <<entry, listErr, podList, podNames, requestSum, missing, requestAvg,
                   podListReg, resp, consumption, calls>>

\* int64(sum / float64(len(podNames))), then in GetCPUUtilization
\* int((avgConsumption * 100) / avgRequest).
ComputeCpuUtilization ==
    /\ pc = "compute"
    /\ entry = "CPU"
    /\ LET sum == resp.samples[1].valueMilli
           c   == TruncDiv(sum, Len(podNames))
       IN  /\ consumption' = c
           /\ IF requestAvg = 0
              THEN /\ pc' = "panic"
                   /\ panicKind' = "DivideByZero"
                   /\ UNCHANGED ret
              ELSE /\ ret' = Success(Rat(TruncDiv(c * 100, requestAvg), 1), resp.samples[1].ts)
                   /\ pc' = "done"
                   /\ UNCHANGED panicKind
    /\ UNCHANGED <<entry, listErr, podList, podNames, requestSum, missing, requestAvg,
                   podListReg, resp, calls>>

\* float64(metrics[0].Value) / float64(len(podNames))
ComputeCustomMetric ==
    /\ pc = "compute"
    /\ entry = "Custom"
    /\ ret' = Success(Rat(resp.samples[1].valueMilli, 1000 * Len(podNames)), resp.samples[1].ts)
    /\ pc' = "done"
    /\ UNCHANGED <<entry, listErr, podList, podNames, requestSum, missing, requestAvg,
                   podListReg, resp, consumption, panicKind, calls>>

\* The invocation is over; nothing of it is kept for the next one.
Return ==
    /\ pc \in {"done", "panic"}
    /\ pc' = "idle"
    /\ entry' = "none"
    /\ listErr' = FALSE
    /\ podList' = <<>>
    /\ podNames' = <<>>
    /\ requestSum' = 0
    /\ missing' = FALSE
    /\ requestAvg' = 0
    /\ podListReg' = <<>>
    /\ resp' = NoResponse
    /\ consumption' = 0
    /\ ret' = NoReturn
    /\ panicKind' = "none"
    /\ calls' = <<>>

Next ==
    \/ \E e \in {"CPU", "Custom"} : Call(e)
    \/ ListPodsFails
    \/ ListPodsReturns
    \/ AggregateRequests
    \/ FilterPending
    \/ BuildCpuQuery
    \/ BuildCustomQuery
    \/ QueryBackend
    \/ NarrowResult
    \/ ComputeCpuUtilization
    \/ ComputeCustomMetric
    \/ Return

Spec == Init /\ [][Next]_vars

\* ------------------------------------------------- vocabulary of the claims
IsRunning(pod) == pod.phase = "Running"
IsNotPending(pod) == pod.phase # "Pending"

RunningCount == Len(SelectSeq(podList, IsRunning))
NonPendingCount == Len(SelectSeq(podList, IsNotPending))

\* Some container of some Running pod has no CPU request.
SomeRunningContainerLacksRequest ==
    \E i \in 1..Len(podList) :
        /\ podList[i].phase = "Running"
        /\ \E j \in 1..Len(podList[i].containers) : ~podList[i].containers[j].hasCpu

RECURSIVE SumMilli(_)
SumMilli(cs) == IF cs = <<>> THEN 0 ELSE Head(cs).milli + SumMilli(Tail(cs))

RECURSIVE SumRunning(_)
SumRunning(pods) ==
    IF pods = <<>> THEN 0
    ELSE (IF Head(pods).phase = "Running" THEN SumMilli(Head(pods).containers) ELSE 0)
         + SumRunning(Tail(pods))

\* Summed CPU request of the Running pods (absent requests count as 0).
RunningRequestTotal == SumRunning(podList)

RECURSIVE JoinNames(_)
JoinNames(names) ==
    IF names = <<>> THEN <<>>
    ELSE IF Len(names) = 1 THEN <<names[1]>>
    ELSE <<names[1], "|">> \o JoinNames(Tail(names))

\* The listing was made and succeeded; podList is what it returned.
Listed == calls # <<>> /\ ~listErr
\* The backend query was made; resp is what it returned.
Queried == Len(calls) = 2
GotNonEmptyVector == Queried /\ ~resp.err /\ resp.shape = "vector" /\ resp.samples # <<>>
PastFilter == pc \notin {"idle", "list", "filter"}
Ended == pc \in {"done", "panic"}

\* C1: when every container of every Running pod has a CPU request, the summed
\* request of the Running pods is > 0 and the backend returns a non-empty
\* vector, GetCPUUtilization succeeds with
\* floor(trunc(first * 1000 / running) * 100 / (requestSum div running)).
C1_CpuUtilizationFormula ==
    ( /\ entry = "CPU"
      /\ Ended
      /\ Listed
      /\ ~SomeRunningContainerLacksRequest
      /\ RunningRequestTotal > 0
      /\ GotNonEmptyVector )
    => /\ pc = "done"
       /\ ret.err = "none"
       /\ ret.present
       /\ RunningRequestTotal \div RunningCount > 0
       /\ ret.value.den = 1
       /\ ret.value.num =
            ((resp.samples[1].valueMilli \div RunningCount) * 100)
              \div (RunningRequestTotal \div RunningCount)

\* C2: when the listing succeeds and some container of some Running pod has no
\* CPU request, GetCPUUtilization fails with MissingResourceRequest, returns no
\* value and does not consult the backend.
C2_MissingRequestFails ==
    ( /\ entry = "CPU"
      /\ Listed
      /\ PastFilter
      /\ SomeRunningContainerLacksRequest )
    => /\ pc = "done"
       /\ ret.err = "MissingResourceRequest"
       /\ ~ret.present
       /\ calls = <<"list">>

C2_Witness ==
    /\ entry = "CPU"
    /\ pc = "done"
    /\ ret.err = "MissingResourceRequest"
    /\ Len(podList) = 2
    /\ SomeRunningContainerLacksRequest
    /\ RunningRequestTotal > 0
    /\ \E i \in 1..Len(podList) :
          /\ podList[i].phase = "Running"
          /\ Len(podList[i].containers) = 2
          /\ ~podList[i].containers[1].hasCpu
          /\ podList[i].containers[2].hasCpu

\* C3: when the listing returns a non-empty list of which the phase filter
\* keeps no pod (no Running pod for GetCPUUtilization, only Pending pods for
\* GetCustomMetric), the entry point fails with NoEligiblePods and no value.
C3_NoEligiblePodsFails ==
    ( /\ Listed
      /\ PastFilter
      /\ Len(podList) > 0
      /\ \/ entry = "CPU" /\ RunningCount = 0
         \/ entry = "Custom" /\ NonPendingCount = 0 )
    => /\ pc = "done"
       /\ ret.err = "NoEligiblePods"
       /\ ~ret.present

C3_Witness ==
    /\ entry = "CPU"
    /\ pc = "done"
    /\ ret.err = "NoEligiblePods"
    /\ Len(podList) = 2
    /\ RunningCount = 0
    /\ podList[1].phase = "Succeeded"
    /\ ~podList[1].containers[1].hasCpu
    /\ podList[2].phase = "Pending"

\* C4: when the listing returns an empty list, both entry points fail with
\* NoEligiblePods without querying the backend.
C4_EmptyListIsNoEligiblePods ==
    ( /\ Listed
      /\ PastFilter
      /\ podList = <<>> )
    => /\ pc = "done"
       /\ ret.err = "NoEligiblePods"
       /\ ~ret.present
       /\ calls = <<"list">>

\* C5: when the backend query is made and returns a vector with no samples,
\* the entry point fails with NoMatchingMetricSamples, an absent value and the
\* zero timestamp.
C5_EmptyVectorFails ==
    ( /\ Queried
      /\ ~resp.err
      /\ resp.shape = "vector"
      /\ resp.samples = <<>>
      /\ pc # "narrow" )
    => /\ pc = "done"
       /\ ret.err = "NoMatchingMetricSamples"
       /\ ~ret.present
       /\ ret.ts = ZeroTime

C5_Witness ==
    /\ entry = "CPU"
    /\ pc = "done"
    /\ Queried
    /\ resp.shape = "vector"
    /\ resp.samples = <<>>
    /\ ret.err = "NoMatchingMetricSamples"
    /\ RunningCount = 2

\* C6: when the listing returns at least one pod that is not Pending and the
\* backend returns a non-empty vector, GetCustomMetric succeeds with the first
\* sample's value divided by the number of pods that are not Pending, and with
\* the first sample's timestamp.
C6_CustomMetricAverage ==
    ( /\ entry = "Custom"
      /\ Listed
      /\ NonPendingCount >= 1
      /\ GotNonEmptyVector
      /\ pc \notin {"narrow", "compute"} )
    => /\ pc = "done"
       /\ ret.err = "none"
       /\ ret.present
       /\ ret.value.den > 0
       /\ ret.value.num * (1000 * NonPendingCount) = resp.samples[1].valueMilli * ret.value.den
       /\ ret.ts = resp.samples[1].ts

C6_Witness ==
    /\ entry = "Custom"
    /\ pc = "done"
    /\ ret.present
    /\ Len(podList) = 2
    /\ podList[1].phase = "Pending"
    /\ podList[2].phase = "Succeeded"
    /\ Len(resp.samples) = 2
    /\ resp.samples[1] # resp.samples[2]
    /\ ret.value = [num |-> 1, den |-> 200]
    /\ ret.ts = 2

\* C7: when the backend returns a result that is not a vector, the entry point
\* returns the UnexpectedResultShape error with no value, and never panics.
C7_NonVectorFailsExplicitly ==
    /\ panicKind # "TypeAssertion"
    /\ ( /\ Queried
         /\ ~resp.err
         /\ resp.shape \in NonVectorShapes
         /\ pc # "narrow" )
       => /\ pc = "done"
          /\ ret.err = "UnexpectedResultShape"
          /\ ~ret.present

\* C8: GetCPUUtilization never divides by zero: the Running-pod count is >= 1
\* when requestSum is divided by it, and the average request is >= 1 when the
\* percentage is computed.
C8_NoDivisionByZero ==
    /\ panicKind # "DivideByZero"
    /\ (entry = "CPU" /\ pc \in {"build", "query", "narrow", "compute"})
         => Len(podNames) >= 1 /\ requestAvg >= 1

\* C9: an invocation makes one pod listing, then at most one backend query,
\* and nothing else; a failed stage makes no further external call and returns
\* an error with an absent value; the backend is not queried after a failed
\* listing, after a non-empty list without eligible pods, nor (CPU) when a
\* request is missing or the request sum is zero.
C9_LinearPipeline ==
    /\ calls \in {<<>>, <<"list">>, <<"list", "query">>}
    /\ pc \notin {"idle", "list"} => Len(calls) >= 1
    /\ pc \in {"narrow", "compute"} => Len(calls) = 2
    /\ pc = "done" => (ret.present <=> ret.err = "none")
    /\ (pc = "done" /\ ret.err # "none") => (ret.value = ZeroValue /\ ret.ts = ZeroTime)
    /\ ret.err \in {"PodListError", "NoEligiblePods", "MissingResourceRequest"}
         => calls = <<"list">>
    /\ ret.err \in {"QueryError", "NoMatchingMetricSamples"} => calls = <<"list", "query">>
    /\ ret.err # "none" => pc = "done"
    /\ listErr => (calls = <<"list">> /\ pc = "done" /\ ret.err = "PodListError")
    /\ ( /\ Listed
         /\ Len(podList) > 0
         /\ \/ entry = "CPU" /\ RunningCount = 0
            \/ entry = "Custom" /\ NonPendingCount = 0 )
       => calls = <<"list">>
    /\ ( /\ entry = "CPU"
         /\ Listed
         /\ SomeRunningContainerLacksRequest \/ RunningRequestTotal = 0 )
       => (calls = <<"list">> /\ (PastFilter => pc = "done" /\ ret.err # "none"))

C9_Witness ==
    /\ entry = "CPU"
    /\ pc = "done"
    /\ calls = <<"list">>
    /\ RunningCount = 1
    /\ SomeRunningContainerLacksRequest
    /\ RunningRequestTotal = 1
    /\ ret.err # "none"
    /\ ~ret.present

\* C10: for a non-empty eligible set the pod-name pattern is "(" + the
\* eligible names joined by "|" + ").*", with no "|" before ")".
C10_PatternIsJoinedNames ==
    ( /\ pc \in {"query", "narrow", "compute", "done", "panic"}
      /\ podListReg # <<>>
      /\ podNames # <<>> )
    => \E order \in Orderings(podNames) :
          podListReg = <<"(">> \o JoinNames(order) \o <<")", ".*">>

====
